---- MODULE Spec2Model ----
(***************************************************************************)
(* Phase-gated reconciliation of KeptnWorkloadInstance and KeptnAppVersion *)
(* (operator/controllers/keptnworkloadinstance/controller.go, which also   *)
(* carries the keptnappversion controller from line 478 on).               *)
(*                                                                         *)
(* One workload instance and one application version live in a store with  *)
(* optimistic concurrency.  Worker routines run Reconcile calls; a call    *)
(* yields while its phase callback runs, so calls of different workers     *)
(* overlap there.                                                          *)
(***************************************************************************)
EXTENDS Integers, Sequences, FiniteSets, TLC

VARIABLES
    storeWli,   \* the stored KeptnWorkloadInstance: [exists, spec, status]
    storeApp,   \* the stored KeptnAppVersion:       [exists, spec, status]
    workers,    \* per worker routine: the Reconcile call it is running
    spans,      \* bindCRDSpan of both reconcilers and the End() count of every span
    meters,     \* Meters: counters and number of gauge samples
    last,       \* what the Reconcile call that has just returned did
    rsv,        \* input and output of an isolated resolver run (SpecResolver)
    cache       \* bindCRDSpan and the calls inside getSpan / unbindSpan (SpecCache)

vars == <<storeWli, storeApp, workers, spans, meters, last, rsv, cache>>

----------------------------------------------------------------------------
(* Bounds *)

NumWorkers == 2
MaxClock == 4
MaxCount == 2
MaxApps == 3
MaxSpans == 3

Workers == 1..NumWorkers

----------------------------------------------------------------------------
(* common.KeptnState *)

StatePending == "Pending"
StateProgressing == "Progressing"
StateSucceeded == "Succeeded"
StateFailed == "Failed"

IsSucceeded(state) == state = StateSucceeded
IsFailed(state) == state = StateFailed
IsCompleted(state) == IsSucceeded(state) \/ IsFailed(state)

(* common.KeptnPhaseType: the short names of the phase table *)
PhaseWorkloadPreDeployment == "WorkloadPreDeployTasks"
PhaseWorkloadDeployment == "WorkloadDeploy"
PhaseWorkloadPostDeployment == "WorkloadPostDeployTasks"
PhaseAppPreDeployment == "AppPreDeployTasks"
PhaseAppPreEvaluation == "AppPreDeployEvaluations"
PhaseAppDeployment == "AppDeploy"
PhaseAppPostDeployment == "AppPostDeployTasks"
PhaseAppPostEvaluation == "AppPostDeployEvaluations"
PhaseCompleted == "Completed"
NoPhase == ""

----------------------------------------------------------------------------
(* Versions.  A version string "v1.2.0" / "1.2.0" is kept with its parse:  *)
(* whether it carries the leading "v", and its numbers.  The empty string  *)
(* has neither.                                                            *)

Ver(v, major, minor, patch) ==
    [text |-> (IF v THEN "v" ELSE "") \o ToString(major) \o "." \o ToString(minor)
                  \o "." \o ToString(patch),
     v |-> v, nums |-> <<major, minor, patch>>]
EmptyVersion == [text |-> "", v |-> FALSE, nums |-> <<>>]

(* semver.IsValid: golang.org/x/mod/semver accepts only strings that start *)
(* with "v".                                                               *)
semverIsValid(x) == x.v /\ Len(x.nums) = 3

compareInt(a, b) == IF a = b THEN 0 ELSE IF a < b THEN 0 - 1 ELSE 1

(* semver.Compare: an invalid version is less than a valid one, and two    *)
(* invalid versions are equal.                                             *)
semverCompare(x, y) ==
    IF ~semverIsValid(x) /\ ~semverIsValid(y) THEN 0
    ELSE IF ~semverIsValid(x) THEN 0 - 1
    ELSE IF ~semverIsValid(y) THEN 1
    ELSE IF compareInt(x.nums[1], y.nums[1]) # 0 THEN compareInt(x.nums[1], y.nums[1])
    ELSE IF compareInt(x.nums[2], y.nums[2]) # 0 THEN compareInt(x.nums[2], y.nums[2])
    ELSE compareInt(x.nums[3], y.nums[3])

----------------------------------------------------------------------------
(* Entities *)

NoTrace == ""

ZeroTime == 0

NewStatusWli ==
    [Status |-> StatePending, CurrentPhase |-> NoPhase,
     PreDeploymentStatus |-> StatePending,
     PreDeploymentEvaluationStatus |-> StatePending,
     DeploymentStatus |-> StatePending,
     PostDeploymentStatus |-> StatePending,
     PostDeploymentEvaluationStatus |-> StatePending,
     StartTime |-> ZeroTime, EndTime |-> ZeroTime]

NewStatusApp ==
    [Status |-> StatePending, CurrentPhase |-> NoPhase,
     PreDeploymentStatus |-> StatePending,
     PreDeploymentEvaluationStatus |-> StatePending,
     WorkloadOverallStatus |-> StatePending,
     PostDeploymentStatus |-> StatePending,
     PostDeploymentEvaluationStatus |-> StatePending,
     StartTime |-> ZeroTime, EndTime |-> ZeroTime]

(* The zero value klcv1alpha1.KeptnAppVersion{} *)
ZeroAppVersion ==
    [spec |-> [Namespace |-> "", AppName |-> "", Version |-> EmptyVersion,
               Workloads |-> <<>>, TraceId |-> NoTrace],
     status |-> NewStatusApp]

----------------------------------------------------------------------------
(* App-version resolver *)

(* fmt.Sprintf("%s-%s", app.Spec.AppName, appWorkload.Name) *)
compositeWorkloadName(appName, workloadName) == appName \o "-" \o workloadName

(* resolveWorkload without the comparison of the workload's version *)
resolveWorkloadAnyVersion(latestVersion, app, appWorkload, wli) ==
    IF compositeWorkloadName(app.spec.AppName, appWorkload.Name) = wli.spec.WorkloadName
    THEN IF latestVersion.spec.Version = EmptyVersion
         THEN app
         ELSE IF semverCompare(latestVersion.spec.Version, app.spec.Version) < 0
              THEN app
              ELSE latestVersion
    ELSE latestVersion

(* The body of the inner loop: one workload entry of one application.      *)
resolveWorkload(latestVersion, app, appWorkload, wli) ==
    IF appWorkload.Version = wli.spec.Version
       /\ compositeWorkloadName(app.spec.AppName, appWorkload.Name) = wli.spec.WorkloadName
    THEN IF latestVersion.spec.Version = EmptyVersion
         THEN app
         ELSE IF semverCompare(latestVersion.spec.Version, app.spec.Version) < 0
              THEN app
              ELSE latestVersion
    ELSE latestVersion

RECURSIVE resolveWorkloads(_, _, _, _)
resolveWorkloads(latestVersion, app, i, wli) ==
    IF i > Len(app.spec.Workloads) THEN latestVersion
    ELSE resolveWorkloads(resolveWorkload(latestVersion, app, app.spec.Workloads[i], wli),
                          app, i + 1, wli)

RECURSIVE resolveApps(_, _, _, _)
resolveApps(latestVersion, apps, i, wli) ==
    IF i > Len(apps) THEN latestVersion
    ELSE IF apps[i].spec.AppName = wli.spec.AppName
         THEN resolveApps(resolveWorkloads(latestVersion, apps[i], 1, wli), apps, i + 1, wli)
         ELSE resolveApps(latestVersion, apps, i + 1, wli)

(* getAppVersionForWorkloadInstance, after a successful List: apps are the *)
(* application versions of the instance's namespace, in list order.        *)
getAppVersionForWorkloadInstance(apps, wli) ==
    LET latestVersion == resolveApps(ZeroAppVersion, apps, 1, wli)
    IN  IF latestVersion.spec.Version = EmptyVersion
        THEN [found |-> FALSE, app |-> ZeroAppVersion]
        ELSE [found |-> TRUE, app |-> latestVersion]

(* client.List(ctx, apps, client.InNamespace(ns)) over a list of stored    *)
(* application versions                                                    *)
RECURSIVE listInNamespace(_, _)
listInNamespace(all, ns) ==
    IF all = <<>> THEN <<>>
    ELSE IF Head(all).spec.Namespace = ns
         THEN <<Head(all)>> \o listInNamespace(Tail(all), ns)
         ELSE listInNamespace(Tail(all), ns)

----------------------------------------------------------------------------
(* Span Binder.  A span is [kind, key, phase, gen]: the reconciler that    *)
(* started it, the key and phase it was started for, and gen, which tells  *)
(* apart the spans started under one key.  spans.bind[kind] is the map     *)
(* bindCRDSpan of that reconciler, as the set of spans bound under their   *)
(* keys; spans.ends[s] counts the End() calls on span s while the map or   *)
(* some running call refers to s.                                          *)

Kinds == {"wli", "app"}

NoSpan == [kind |-> "", key |-> "", phase |-> "", gen |-> 0]

(* The spans some running call holds in a local variable *)
heldSpans(ws) == {ws[w].span : w \in DOMAIN ws} \ {NoSpan}

boundSpan(sp, kind, key) == {s \in sp.bind[kind] : s.key = key}

(* Tracer.Start: a fresh span, unlike every span still referenced *)
tracerStart(sp, kind, key, phase, held) ==
    LET used == {s.gen : s \in {x \in held \cup DOMAIN sp.ends : x.kind = kind /\ x.key = key}}
        free == (0..Cardinality(used)) \ used
        gen == CHOOSE g \in free : \A h \in free : g <= h
    IN  [kind |-> kind, key |-> key, phase |-> phase, gen |-> gen]

(* getSpan: the bound span if the key is bound, else a started and bound one *)
getSpan(sp, kind, key, phase, held) ==
    IF boundSpan(sp, kind, key) # {}
    THEN [sp |-> sp, span |-> CHOOSE s \in boundSpan(sp, kind, key) : TRUE]
    ELSE LET span == tracerStart(sp, kind, key, phase, held)
         IN  [sp |-> [sp EXCEPT !.bind[kind] = @ \cup {span},
                                !.ends = (span :> 0) @@ sp.ends],
              span |-> span]

(* unbindSpan: delete(r.bindCRDSpan, key) *)
unbindSpan(sp, kind, key) ==
    [sp EXCEPT !.bind[kind] = {s \in @ : s.key # key}]

(* span.End(), counted up to 2 *)
spanEnd(sp, span) ==
    [sp EXCEPT !.ends[span] = IF @ < 2 THEN @ + 1 ELSE @]

(* Spans that neither a map nor a running call refers to are forgotten *)
spanCollect(sp, held) ==
    LET live == held \cup UNION {sp.bind[k] : k \in Kinds}
    IN  [sp EXCEPT !.ends = [s \in DOMAIN sp.ends \cap live |-> sp.ends[s]]]

(* fmt.Sprintf("%s.%s.%s.%s.%s", ...) and fmt.Sprintf("%s.%s.%s.%s", ...) *)
getSpanNameWli(wli, phase) ==
    wli.spec.TraceId \o "." \o wli.spec.AppName \o "." \o wli.spec.WorkloadName
        \o "." \o wli.spec.Version \o "." \o phase

getSpanNameApp(appv, phase) ==
    appv.spec.TraceId \o "." \o appv.spec.AppName \o "." \o appv.spec.Version.text
        \o "." \o phase

----------------------------------------------------------------------------
(* A Reconcile call in progress.  ctx threads what the call has read and   *)
(* changed so far through the steps of the code; done marks a return.      *)

Result(requeue, after, err) == [Requeue |-> requeue, RequeueAfter |-> after, err |-> err]
NoResult == Result(FALSE, 0, "")

NewCall(kind, obj) ==
    [kind |-> kind,
     loaded |-> FALSE,      \* the entity was found by Get
     events |-> {},         \* <<eventType, phase, shortReason>> recorded by the call
     callbacks |-> <<>>,    \* the phases whose callback the call invoked
     verdict |-> "",        \* what the callback returned
     writes |-> <<>>,       \* [by, status, ok]: the status writes the call issued
     resolver |-> "",       \* "error", "notfound" or "found" (workload instance)
     app |-> ZeroAppVersion,\* the application version the resolver returned
     counted |-> 0,         \* Add(1) calls on the terminal counter
     sampled |-> <<>>,      \* values the call recorded on the duration gauge
     endedTwice |-> FALSE,  \* the call ended a span that had been ended
     ended |-> {},          \* the spans the call ended
     released |-> {},       \* the keys the call unbound after ending their span
     dropped |-> {},        \* the bound spans the call unbound without ending them
     traces |-> <<obj.spec.TraceId>>, \* the values Spec.TraceId took in the call
     before |-> obj.status, \* the status Get returned
     after |-> obj.status,  \* the status of the object in memory at the return
     result |-> NoResult]   \* the ctrl.Result and error the call returned

(* What a call works on: its object in memory (obj) and in the store       *)
(* (store), the stored application version as the call leaves it (apps),   *)
(* the span cache, the meters and its local variables.                     *)
NewCtx(kind, obj, store, held) ==
    [kind |-> kind, obj |-> obj, store |-> store, apps |-> storeApp, stale |-> FALSE,
     sp |-> spans, m |-> meters, held |-> held,
     call |-> NewCall(kind, obj), done |-> FALSE, result |-> NoResult,
     phase |-> NoPhase, oldPhase |-> NoPhase, oldStatus |-> StatePending,
     span |-> NoSpan]

Ret(ctx, result) ==
    [ctx EXCEPT !.done = TRUE, !.result = result, !.call.result = result,
                !.call.after = ctx.obj.status]

(* recordEvent *)
recordEvent(ctx, phase, eventType, shortReason) ==
    [ctx EXCEPT !.call.events = @ \cup {<<eventType, phase, shortReason>>}]

Max(a, b) == IF a < b THEN b ELSE a
Min(a, b) == IF a < b THEN a ELSE b

(* time.Now(): later than every time stamped on the object so far, stored  *)
(* or in memory; times beyond MaxClock are read as MaxClock.               *)
timeNow(ctx) ==
    Min(MaxClock,
        1 + Max(Max(ctx.store.status.StartTime, ctx.store.status.EndTime),
                Max(ctx.obj.status.StartTime, ctx.obj.status.EndTime)))

(* SetStartTime / SetEndTime: stamp only the zero value *)
SetStartTime(ctx) ==
    IF ctx.obj.status.StartTime = ZeroTime
    THEN [ctx EXCEPT !.obj.status.StartTime = timeNow(ctx)]
    ELSE ctx

SetEndTime(ctx) ==
    IF ctx.obj.status.EndTime = ZeroTime
    THEN [ctx EXCEPT !.obj.status.EndTime = timeNow(ctx)]
    ELSE ctx

IsEndTimeSet(obj) == obj.status.EndTime # ZeroTime

(* The trace id of the object in memory, recorded when it has changed *)
noteTrace(ctx) ==
    IF ctx.obj.spec.TraceId = ctx.call.traces[Len(ctx.call.traces)] THEN ctx
    ELSE [ctx EXCEPT !.call.traces = Append(@, ctx.obj.spec.TraceId)]

(* r.Status().Update(ctx, obj): writes the status subresource.  The store  *)
(* rejects the write (ok = FALSE) or, when the stored object changed since *)
(* the call read it, answers with a conflict.  On success the object is    *)
(* refreshed from the answer: the stored spec and the written status.      *)
statusUpdate(ctx, by, ok) ==
    LET success == ok /\ ~ctx.stale
    IN  noteTrace(
        [ctx EXCEPT !.store.status = IF success THEN ctx.obj.status ELSE @,
                    !.obj.spec = IF success THEN ctx.store.spec ELSE @,
                    !.call.writes = Append(@, [by |-> by, status |-> ctx.obj.status,
                                               ok |-> success])])

lastWriteOk(ctx) == ctx.call.writes[Len(ctx.call.writes)].ok

----------------------------------------------------------------------------
(* The phase callbacks (reconcilePrePostDeployment, reconcilePrePostEvalu-  *)
(* ation, reconcileDeployment, reconcileWorkloads) run the task and        *)
(* evaluation engines.  A callback returns an error, or it records its     *)
(* verdict in the phase's status field of the object it was given, writes  *)
(* the status and returns the verdict; a failed write is its error.        *)

Verdicts == {StateSucceeded, StateFailed, StateProgressing}
Outcomes == Verdicts \cup {"error"}

WliPhaseField(phase) ==
    CASE phase = PhaseWorkloadPreDeployment -> "PreDeploymentStatus"
      [] phase = PhaseAppPreEvaluation -> "PreDeploymentEvaluationStatus"
      [] phase = PhaseWorkloadDeployment -> "DeploymentStatus"
      [] phase = PhaseWorkloadPostDeployment -> "PostDeploymentStatus"
      [] phase = PhaseAppPostEvaluation -> "PostDeploymentEvaluationStatus"

AppPhaseField(phase) ==
    CASE phase = PhaseAppPreDeployment -> "PreDeploymentStatus"
      [] phase = PhaseAppPreEvaluation -> "PreDeploymentEvaluationStatus"
      [] phase = PhaseAppDeployment -> "WorkloadOverallStatus"
      [] phase = PhaseAppPostDeployment -> "PostDeploymentStatus"
      [] phase = PhaseAppPostEvaluation -> "PostDeploymentEvaluationStatus"

PhaseField(kind, phase) ==
    IF kind = "wli" THEN WliPhaseField(phase) ELSE AppPhaseField(phase)

reconcilePhase(ctx, outcome, ok) ==
    IF outcome = "error" THEN [ctx EXCEPT !.call.verdict = "error"]
    ELSE LET c1 == statusUpdate(
                       [ctx EXCEPT !.obj.status[PhaseField(ctx.kind, ctx.phase)] = outcome],
                       "callback", ok)
         IN  [c1 EXCEPT !.call.verdict = IF lastWriteOk(c1) THEN outcome ELSE "error"]

----------------------------------------------------------------------------
(* KeptnWorkloadInstanceReconciler.handlePhase, up to the callback *)
handlePhaseWliEnter(ctx, phase) ==
    LET c1 == [ctx EXCEPT !.oldStatus = ctx.obj.status.Status,
                          !.oldPhase = ctx.obj.status.CurrentPhase,
                          !.phase = phase,
                          !.obj.status.CurrentPhase = phase]
        g  == getSpan(c1.sp, "wli", getSpanNameWli(c1.obj, phase), phase, c1.held)
        c2 == [c1 EXCEPT !.sp = g.sp, !.span = g.span]
    IN  IF IsFailed(c2.obj.status[WliPhaseField(phase)])
        THEN Ret(recordEvent(c2, phase, "Warning", "Failed"), Result(TRUE, 60, ""))
        ELSE [c2 EXCEPT !.call.callbacks = Append(@, phase)]

(* countTerminal leaving the counter alone *)
countTerminalNone(ctx) == ctx

(* The terminal counter of the call's reconciler: DeploymentCount/AppCount *)
countTerminal(ctx) ==
    [ctx EXCEPT !.m[IF ctx.kind = "wli" THEN "DeploymentCount" ELSE "AppCount"] = @ + 1,
                !.call.counted = @ + 1]

(* The span of the phase ends and its key is unbound *)
endAndUnbind(ctx, key) ==
    [ctx EXCEPT !.sp = unbindSpan(spanEnd(ctx.sp, ctx.span), ctx.kind, key),
                !.call.endedTwice = @ \/ ctx.sp.ends[ctx.span] >= 1,
                !.call.ended = @ \cup {ctx.span},
                !.call.released = @ \cup {key}]

(* if oldPhase != CurrentPhase: getSpan for the current phase *)
respan(ctx, key) ==
    LET g == getSpan(ctx.sp, ctx.kind, key, ctx.obj.status.CurrentPhase,
                     ctx.held \cup {ctx.span})
    IN  [ctx EXCEPT !.sp = g.sp, !.span = g.span]

(* handlePhaseWliFinish stopping after a failed phase *)
handlePhaseWliFinishStopping(ctx, outcome, okCallback, ok) ==
    LET phase == ctx.phase
        c1 == reconcilePhase(ctx, outcome, okCallback)
        key == getSpanNameWli(c1.obj, phase)
    IN
    IF c1.call.verdict = "error"
    THEN Ret(recordEvent(c1, phase, "Warning", "ReconcileErrored"),
             Result(TRUE, 0, "callback"))
    ELSE
    LET c2 == IF IsSucceeded(outcome)
              THEN recordEvent(endAndUnbind(c1, key), phase, "Normal", "Succeeded")
              ELSE IF IsFailed(outcome)
              THEN LET f1 == recordEvent(c1, phase, "Warning", "Failed")
                       f2 == SetEndTime([f1 EXCEPT !.obj.status.Status = StateFailed])
                   IN  endAndUnbind(countTerminal(f2), key)
              ELSE LET p1 == IF ctx.oldStatus # StateProgressing
                             THEN [c1 EXCEPT !.obj.status.Status = StateProgressing]
                             ELSE c1
                   IN  recordEvent(p1, phase, "Warning", "NotFinished")
        overallStateUpdated ==
            \/ IsFailed(outcome)
            \/ (~IsSucceeded(outcome) /\ ctx.oldStatus # StateProgressing)
            \/ ctx.oldPhase # c2.obj.status.CurrentPhase
        c3 == IF ctx.oldPhase # c2.obj.status.CurrentPhase
              THEN respan(c2, getSpanNameWli(c2.obj, c2.obj.status.CurrentPhase))
              ELSE c2
        c4 == IF overallStateUpdated THEN statusUpdate(c3, "handlePhase", ok) ELSE c3
    IN  Ret(c4, IF IsFailed(outcome) THEN NoResult ELSE Result(TRUE, 5, ""))

(* KeptnWorkloadInstanceReconciler.handlePhase, from the callback's return *)
handlePhaseWliFinish(ctx, outcome, okCallback, ok) ==
    LET phase == ctx.phase
        c1 == reconcilePhase(ctx, outcome, okCallback)
        key == getSpanNameWli(c1.obj, phase)
    IN
    IF c1.call.verdict = "error"
    THEN Ret(recordEvent(c1, phase, "Warning", "ReconcileErrored"),
             Result(TRUE, 0, "callback"))
    ELSE
    LET c2 == IF IsSucceeded(outcome)
              THEN recordEvent(endAndUnbind(c1, key), phase, "Normal", "Succeeded")
              ELSE IF IsFailed(outcome)
              THEN LET f1 == recordEvent(c1, phase, "Warning", "Failed")
                       f2 == SetEndTime([f1 EXCEPT !.obj.status.Status = StateFailed])
                   IN  endAndUnbind(countTerminal(f2), key)
              ELSE LET p1 == IF ctx.oldStatus # StateProgressing
                             THEN [c1 EXCEPT !.obj.status.Status = StateProgressing]
                             ELSE c1
                   IN  recordEvent(p1, phase, "Warning", "NotFinished")
        overallStateUpdated ==
            \/ IsFailed(outcome)
            \/ (~IsSucceeded(outcome) /\ ctx.oldStatus # StateProgressing)
            \/ ctx.oldPhase # c2.obj.status.CurrentPhase
        c3 == IF ctx.oldPhase # c2.obj.status.CurrentPhase
              THEN respan(c2, getSpanNameWli(c2.obj, c2.obj.status.CurrentPhase))
              ELSE c2
        c4 == IF overallStateUpdated THEN statusUpdate(c3, "handlePhase", ok) ELSE c3
    IN  Ret(c4, Result(TRUE, 5, ""))

----------------------------------------------------------------------------
(* KeptnWorkloadInstanceReconciler.Reconcile, step by step.  Every step    *)
(* passes a returned call (done) through unchanged.                         *)

(* WliLoad saving the start time as soon as it is stamped *)
WliLoadSaving(ctx, exists, getErr) ==
    IF ~exists THEN Ret(ctx, NoResult)
    ELSE IF getErr THEN Ret(ctx, Result(FALSE, 0, "fetch"))
    ELSE statusUpdate(SetStartTime([ctx EXCEPT !.call.loaded = TRUE]), "Reconcile", TRUE)

(* lines 81-102: Get and SetStartTime *)
WliLoad(ctx, exists, getErr) ==
    IF ~exists THEN Ret(ctx, NoResult)
    ELSE IF getErr THEN Ret(ctx, Result(FALSE, 0, "fetch"))
    ELSE SetStartTime([ctx EXCEPT !.call.loaded = TRUE])

(* WliGate with the back-offs of the failed and the unfinished application  *)
(* version exchanged                                                       *)
WliGateSwapped(ctx, allApps, listErr) ==
    IF ctx.done THEN ctx
    ELSE
    LET phase == PhaseAppPreEvaluation
        r == getAppVersionForWorkloadInstance(
                 listInNamespace(allApps, ctx.obj.spec.Namespace), ctx.obj)
        appPreEvalStatus == r.app.status.PreDeploymentEvaluationStatus
    IN  IF listErr
        THEN Ret(recordEvent([ctx EXCEPT !.call.resolver = "error"],
                             phase, "Warning", "GetAppVersionFailed"),
                 Result(TRUE, 10, "GetAppVersion"))
        ELSE IF ~r.found
        THEN Ret(recordEvent([ctx EXCEPT !.call.resolver = "notfound"],
                             phase, "Warning", "AppVersionNotFound"),
                 Result(TRUE, 10, "AppVersionNotFound"))
        ELSE
        LET c1 == [ctx EXCEPT !.call.resolver = "found", !.call.app = r.app]
        IN  IF ~IsSucceeded(appPreEvalStatus)
            THEN IF IsFailed(appPreEvalStatus)
                 THEN Ret(recordEvent(c1, phase, "Warning", "Failed"), Result(TRUE, 20, ""))
                 ELSE Ret(recordEvent(c1, phase, "Normal", "NotFinished"), Result(TRUE, 60, ""))
            ELSE c1

(* lines 104-129: the application version of the instance and its gate *)
WliGate(ctx, allApps, listErr) ==
    IF ctx.done THEN ctx
    ELSE
    LET phase == PhaseAppPreEvaluation
        r == getAppVersionForWorkloadInstance(
                 listInNamespace(allApps, ctx.obj.spec.Namespace), ctx.obj)
        appPreEvalStatus == r.app.status.PreDeploymentEvaluationStatus
    IN  IF listErr
        THEN Ret(recordEvent([ctx EXCEPT !.call.resolver = "error"],
                             phase, "Warning", "GetAppVersionFailed"),
                 Result(TRUE, 10, "GetAppVersion"))
        ELSE IF ~r.found
        THEN Ret(recordEvent([ctx EXCEPT !.call.resolver = "notfound"],
                             phase, "Warning", "AppVersionNotFound"),
                 Result(TRUE, 10, "AppVersionNotFound"))
        ELSE
        LET c1 == [ctx EXCEPT !.call.resolver = "found", !.call.app = r.app]
        IN  IF ~IsSucceeded(appPreEvalStatus)
            THEN IF IsFailed(appPreEvalStatus)
                 THEN Ret(recordEvent(c1, phase, "Warning", "Failed"), Result(TRUE, 60, ""))
                 ELSE Ret(recordEvent(c1, phase, "Normal", "NotFinished"), Result(TRUE, 20, ""))
            ELSE c1

(* WliPreAdvance reporting the progress to the application version too *)
WliPreAdvanceReporting(ctx, ok) ==
    IF ctx.done THEN ctx
    ELSE
    LET pending == ctx.obj.status.PreDeploymentStatus = StatePending
        noTrace == ctx.obj.spec.TraceId = NoTrace
        c1 == IF pending
              THEN [ctx EXCEPT !.obj.status.PreDeploymentStatus = StateProgressing,
                               !.apps.status.WorkloadOverallStatus = StateProgressing]
              ELSE ctx
        c2 == IF noTrace
              THEN noteTrace([c1 EXCEPT !.obj.spec.TraceId = ctx.call.app.spec.TraceId])
              ELSE c1
        saveState == pending \/ noTrace
        c3 == IF saveState THEN statusUpdate(c2, "Reconcile", ok) ELSE c2
    IN  IF saveState /\ ~lastWriteOk(c3)
        THEN Ret(c3, Result(FALSE, 0, "update"))
        ELSE c3

(* lines 131-148: pre-deployment status and trace id, saved when changed *)
WliPreAdvance(ctx, ok) ==
    IF ctx.done THEN ctx
    ELSE
    LET pending == ctx.obj.status.PreDeploymentStatus = StatePending
        noTrace == ctx.obj.spec.TraceId = NoTrace
        c1 == IF pending
              THEN [ctx EXCEPT !.obj.status.PreDeploymentStatus = StateProgressing]
              ELSE ctx
        c2 == IF noTrace
              THEN noteTrace([c1 EXCEPT !.obj.spec.TraceId = ctx.call.app.spec.TraceId])
              ELSE c1
        saveState == pending \/ noTrace
        c3 == IF saveState THEN statusUpdate(c2, "Reconcile", ok) ELSE c2
    IN  IF saveState /\ ~lastWriteOk(c3)
        THEN Ret(c3, Result(FALSE, 0, "update"))
        ELSE c3

(* lines 149-156: the start of the pre-deployment phase is announced when  *)
(* the application version has no current phase                            *)
WliStarted(ctx) ==
    IF ctx.done THEN ctx
    ELSE IF ctx.call.app.status.CurrentPhase = NoPhase
    THEN LET phase == PhaseWorkloadPreDeployment
             key == getSpanNameWli(ctx.obj, phase)
             g == getSpan(unbindSpan(ctx.sp, "wli", key), "wli", key, phase, ctx.held)
         IN  recordEvent([ctx EXCEPT !.sp = g.sp,
                                     !.call.dropped = @ \cup boundSpan(ctx.sp, "wli", key)],
                         phase, "Normal", "Started")
    ELSE ctx

(* WliAdvance without the test for Pending *)
WliAdvanceAlways(ctx, field, ok) ==
    IF ctx.done \/ ctx.phase # NoPhase THEN ctx
    ELSE LET c1 == statusUpdate([ctx EXCEPT !.obj.status[field] = StateProgressing],
                               "Reconcile", ok)
         IN  IF lastWriteOk(c1) THEN c1 ELSE Ret(c1, Result(FALSE, 0, "update"))

(* "Set state to progressing if not already set": the field is tested and  *)
(* set, and the status saved (lines 169-174, 185-190, 201-206, 217-222)     *)
WliAdvance(ctx, field, ok) ==
    IF ctx.done \/ ctx.phase # NoPhase THEN ctx
    ELSE IF ctx.obj.status[field] = StatePending
    THEN LET c1 == statusUpdate([ctx EXCEPT !.obj.status[field] = StateProgressing],
                               "Reconcile", ok)
         IN  IF lastWriteOk(c1) THEN c1 ELSE Ret(c1, Result(FALSE, 0, "update"))
    ELSE ctx

(* WliPhase without the test of the phase's accessor *)
WliPhaseAlways(ctx, phase) ==
    IF ctx.done \/ ctx.phase # NoPhase THEN ctx
    ELSE handlePhaseWliEnter(ctx, phase)

(* if !workloadInstance.IsXSucceeded() { return r.handlePhase(...) } *)
WliPhase(ctx, phase) ==
    IF ctx.done \/ ctx.phase # NoPhase THEN ctx
    ELSE IF ~IsSucceeded(ctx.obj.status[WliPhaseField(phase)])
    THEN handlePhaseWliEnter(ctx, phase)
    ELSE ctx

(* lines 230-256: the workload instance is completed *)
WliComplete(ctx, ok) ==
    IF ctx.done \/ ctx.phase # NoPhase THEN ctx
    ELSE
    LET c1 == IF ~IsEndTimeSet(ctx.obj)
              THEN SetEndTime([ctx EXCEPT !.obj.status.CurrentPhase = PhaseCompleted,
                                          !.obj.status.Status = StateSucceeded])
              ELSE ctx
        c2 == statusUpdate(c1, "Reconcile", ok)
    IN  IF ~lastWriteOk(c2)
        THEN Ret(c2, Result(TRUE, 0, "update"))
        ELSE LET c3 == countTerminal(c2)
                 duration == c3.obj.status.EndTime - c3.obj.status.StartTime
                 c4 == [c3 EXCEPT !.call.sampled = Append(@, duration)]
             IN  Ret(recordEvent(c4, PhaseAppPostEvaluation, "Normal", "Finished"), NoResult)

(* Reconcile up to its return or up to the callback of the phase it attempts *)
WliReconcile(ctx, exists, allApps, getErr, listErr, ok1, ok2) ==
    LET g0 == WliPreAdvance(WliGate(WliLoad(ctx, exists, getErr), allApps, listErr), ok1)
        p1 == WliPhase(WliStarted(g0), PhaseWorkloadPreDeployment)
        p2 == WliPhase(WliAdvance(p1, "PreDeploymentEvaluationStatus", ok2),
                       PhaseAppPreEvaluation)
        p3 == WliPhase(WliAdvance(p2, "DeploymentStatus", ok2), PhaseWorkloadDeployment)
        p4 == WliPhase(WliAdvance(p3, "PostDeploymentStatus", ok2),
                       PhaseWorkloadPostDeployment)
        p5 == WliPhase(WliAdvance(p4, "PostDeploymentStatus", ok2), PhaseAppPostEvaluation)
    IN  WliComplete(p5, ok2)

----------------------------------------------------------------------------
(* KeptnAppVersionReconciler *)

(* handlePhase, up to the callback *)
handlePhaseAppEnter(ctx, phase) ==
    LET g  == getSpan(ctx.sp, "app", getSpanNameApp(ctx.obj, phase), phase, ctx.held)
        c1 == [ctx EXCEPT !.oldStatus = ctx.obj.status.Status,
                          !.sp = g.sp, !.span = g.span,
                          !.oldPhase = ctx.obj.status.CurrentPhase,
                          !.phase = phase,
                          !.obj.status.CurrentPhase = phase]
    IN  IF IsFailed(c1.obj.status[AppPhaseField(phase)])
        THEN Ret(recordEvent(c1, phase, "Warning", "Failed"), Result(TRUE, 60, ""))
        ELSE [c1 EXCEPT !.call.callbacks = Append(@, phase)]

(* appNewStatus leaving the overall status of an unfinished phase alone *)
appNewStatusKeeping(oldStatus, outcome) ==
    IF IsSucceeded(outcome) THEN StateSucceeded
    ELSE IF IsFailed(outcome) THEN StateFailed
    ELSE oldStatus

(* newStatus of handlePhase: every verdict becomes the overall status *)
appNewStatus(oldStatus, outcome) ==
    IF IsSucceeded(outcome) THEN StateSucceeded
    ELSE IF IsFailed(outcome) THEN StateFailed
    ELSE StateProgressing

(* handlePhaseAppFinish taking the callback's error for an unfinished phase *)
handlePhaseAppFinishPolling(ctx, outcome, okCallback, ok) ==
    LET phase == ctx.phase
        c1 == reconcilePhase(ctx, outcome, okCallback)
        key == getSpanNameApp(c1.obj, phase)
        newStatus == appNewStatus(ctx.oldStatus, outcome)
    IN
    IF c1.call.verdict = "error"
    THEN Ret(recordEvent(c1, phase, "Warning", "ReconcileErrored"),
             Result(TRUE, 5, ""))
    ELSE
    LET c2 == IF IsSucceeded(outcome)
              THEN recordEvent(endAndUnbind(c1, key), phase, "Normal", "Succeeded")
              ELSE IF IsFailed(outcome)
              THEN recordEvent(endAndUnbind(countTerminal(SetEndTime(c1)), key),
                               phase, "Warning", "Failed")
              ELSE recordEvent(c1, phase, "Warning", "NotFinished")
        statusUpdated ==
            \/ ctx.oldPhase # c2.obj.status.CurrentPhase
            \/ ctx.oldStatus # newStatus
        c3 == IF ctx.oldPhase # c2.obj.status.CurrentPhase
              THEN respan(c2, getSpanNameApp(c2.obj, c2.obj.status.CurrentPhase))
              ELSE c2
        c4 == IF ctx.oldStatus # newStatus
              THEN [c3 EXCEPT !.obj.status.Status = newStatus]
              ELSE c3
        c5 == IF statusUpdated THEN statusUpdate(c4, "handlePhase", ok) ELSE c4
    IN  Ret(c5, Result(TRUE, 5, ""))

(* handlePhaseAppFinish saving the status after every verdict *)
handlePhaseAppFinishSaving(ctx, outcome, okCallback, ok) ==
    LET phase == ctx.phase
        c1 == reconcilePhase(ctx, outcome, okCallback)
        key == getSpanNameApp(c1.obj, phase)
        newStatus == appNewStatus(ctx.oldStatus, outcome)
    IN
    IF c1.call.verdict = "error"
    THEN Ret(recordEvent(c1, phase, "Warning", "ReconcileErrored"),
             Result(TRUE, 0, "callback"))
    ELSE
    LET c2 == IF IsSucceeded(outcome)
              THEN recordEvent(endAndUnbind(c1, key), phase, "Normal", "Succeeded")
              ELSE IF IsFailed(outcome)
              THEN recordEvent(endAndUnbind(countTerminal(SetEndTime(c1)), key),
                               phase, "Warning", "Failed")
              ELSE recordEvent(c1, phase, "Warning", "NotFinished")
        statusUpdated == TRUE
        c3 == IF ctx.oldPhase # c2.obj.status.CurrentPhase
              THEN respan(c2, getSpanNameApp(c2.obj, c2.obj.status.CurrentPhase))
              ELSE c2
        c4 == IF ctx.oldStatus # newStatus
              THEN [c3 EXCEPT !.obj.status.Status = newStatus]
              ELSE c3
        c5 == IF statusUpdated THEN statusUpdate(c4, "handlePhase", ok) ELSE c4
    IN  Ret(c5, Result(TRUE, 5, ""))

(* handlePhase, from the callback's return *)
handlePhaseAppFinish(ctx, outcome, okCallback, ok) ==
    LET phase == ctx.phase
        c1 == reconcilePhase(ctx, outcome, okCallback)
        key == getSpanNameApp(c1.obj, phase)
        newStatus == appNewStatus(ctx.oldStatus, outcome)
    IN
    IF c1.call.verdict = "error"
    THEN Ret(recordEvent(c1, phase, "Warning", "ReconcileErrored"),
             Result(TRUE, 0, "callback"))
    ELSE
    LET c2 == IF IsSucceeded(outcome)
              THEN recordEvent(endAndUnbind(c1, key), phase, "Normal", "Succeeded")
              ELSE IF IsFailed(outcome)
              THEN recordEvent(endAndUnbind(countTerminal(SetEndTime(c1)), key),
                               phase, "Warning", "Failed")
              ELSE recordEvent(c1, phase, "Warning", "NotFinished")
        statusUpdated ==
            \/ ctx.oldPhase # c2.obj.status.CurrentPhase
            \/ ctx.oldStatus # newStatus
        c3 == IF ctx.oldPhase # c2.obj.status.CurrentPhase
              THEN respan(c2, getSpanNameApp(c2.obj, c2.obj.status.CurrentPhase))
              ELSE c2
        c4 == IF ctx.oldStatus # newStatus
              THEN [c3 EXCEPT !.obj.status.Status = newStatus]
              ELSE c3
        c5 == IF statusUpdated THEN statusUpdate(c4, "handlePhase", ok) ELSE c4
    IN  Ret(c5, Result(TRUE, 5, ""))

(* lines 551-562: Get and SetStartTime *)
AppLoad(ctx, exists, getErr) ==
    IF ~exists THEN Ret(ctx, NoResult)
    ELSE IF getErr THEN Ret(ctx, Result(FALSE, 0, "fetch"))
    ELSE SetStartTime([ctx EXCEPT !.call.loaded = TRUE])

(* lines 575-585: the first reconcile of the application version *)
AppStarted(ctx) ==
    IF ctx.done THEN ctx
    ELSE IF ctx.obj.status.CurrentPhase = NoPhase
    THEN LET phase == PhaseAppPreDeployment
             key == getSpanNameApp(ctx.obj, phase)
             g == getSpan(unbindSpan(ctx.sp, "app", key), "app", key, phase, ctx.held)
         IN  recordEvent([ctx EXCEPT !.sp = g.sp,
                                     !.call.dropped = @ \cup boundSpan(ctx.sp, "app", key)],
                         phase, "Normal", "Started")
    ELSE ctx

(* The accessor that guards each phase: IsXSucceeded, AreWorkloadsSucceeded *)
(* and, for the post-deployment evaluation, IsPostDeploymentEvaluation-     *)
(* Completed                                                               *)
AppPhaseFinished(obj, phase) ==
    IF phase = PhaseAppPostEvaluation
    THEN IsCompleted(obj.status.PostDeploymentEvaluationStatus)
    ELSE IsSucceeded(obj.status[AppPhaseField(phase)])

(* if !appVersion.IsXSucceeded() { return r.handlePhase(...) } *)
AppPhase(ctx, phase) ==
    IF ctx.done \/ ctx.phase # NoPhase THEN ctx
    ELSE IF ~AppPhaseFinished(ctx.obj, phase)
    THEN handlePhaseAppEnter(ctx, phase)
    ELSE ctx

(* lines 627-658: the application version is completed *)
AppComplete(ctx, ok1, ok2) ==
    IF ctx.done \/ ctx.phase # NoPhase THEN ctx
    ELSE
    LET c1 == statusUpdate(recordEvent(ctx, PhaseAppPostEvaluation, "Normal", "Finished"),
                           "Reconcile", ok1)
        c2 == IF ~IsEndTimeSet(c1.obj)
              THEN SetEndTime([c1 EXCEPT !.obj.status.CurrentPhase = PhaseCompleted])
              ELSE c1
        c3 == statusUpdate(c2, "Reconcile", ok2)
    IN  IF ~lastWriteOk(c1) THEN Ret(c1, Result(TRUE, 0, "update"))
        ELSE IF ~lastWriteOk(c3) THEN Ret(c3, Result(TRUE, 0, "update"))
        ELSE LET c4 == countTerminal(c3)
                 duration == c4.obj.status.EndTime - c4.obj.status.StartTime
             IN  Ret([c4 EXCEPT !.call.sampled = Append(@, duration)], NoResult)

(* Reconcile up to its return or up to the callback of the phase it attempts *)
AppReconcile(ctx, exists, getErr, ok1, ok2) ==
    LET p0 == AppStarted(AppLoad(ctx, exists, getErr))
        p1 == AppPhase(p0, PhaseAppPreDeployment)
        p2 == AppPhase(p1, PhaseAppPreEvaluation)
        p3 == AppPhase(p2, PhaseAppDeployment)
        p4 == AppPhase(p3, PhaseAppPostDeployment)
        p5 == AppPhase(p4, PhaseAppPostEvaluation)
    IN  AppComplete(p5, ok1, ok2)

----------------------------------------------------------------------------
(* The entities the admission path creates *)

WliSpecs ==
    {[Namespace |-> "default", AppName |-> "app", WorkloadName |-> "app-workload1",
      Version |-> "1.0.0", TraceId |-> t] : t \in {NoTrace, "trace-w"}}

AppSpecs ==
    {[Namespace |-> "default", AppName |-> "app", Version |-> Ver(FALSE, 1, 0, 0),
      Workloads |-> <<[Name |-> "workload1", Version |-> wv]>>, TraceId |-> "trace-a"] :
        wv \in {"1.0.0", "2.0.0"}}

IdleWorker ==
    [pc |-> "idle", kind |-> "", obj |-> ZeroAppVersion, stale |-> FALSE,
     phase |-> NoPhase, oldPhase |-> NoPhase, oldStatus |-> StatePending,
     span |-> NoSpan, call |-> NewCall("", ZeroAppVersion)]

RsvIdle == [apps |-> <<>>, wli |-> [spec |-> CHOOSE x \in WliSpecs : TRUE], ran |-> FALSE,
            out |-> [found |-> FALSE, app |-> ZeroAppVersion]]

(* The keys of two entities in the pre-deployment phase *)
CacheKeys == {getSpanNameWli([spec |-> x], PhaseWorkloadPreDeployment) : x \in WliSpecs}

(* bindCRDSpan empty (0: the key is not bound), no call inside the cache *)
CacheIdle ==
    [bind |-> [k \in CacheKeys |-> 0], started |-> 0,
     pc |-> [w \in Workers |-> "idle"],
     key |-> [w \in Workers |-> CHOOSE k \in CacheKeys : TRUE],
     span |-> [w \in Workers |-> 0],
     crashed |-> FALSE]

Init ==
    /\ storeWli = [exists |-> FALSE, spec |-> CHOOSE x \in WliSpecs : TRUE,
                   status |-> NewStatusWli]
    /\ storeApp = [exists |-> FALSE, spec |-> ZeroAppVersion.spec, status |-> NewStatusApp]
    /\ workers = [w \in Workers |-> IdleWorker]
    /\ spans = [bind |-> [k \in Kinds |-> {}], ends |-> <<>>]
    /\ meters = [DeploymentCount |-> 0, AppCount |-> 0]
    /\ last = NewCall("", ZeroAppVersion)
    /\ rsv = RsvIdle
    /\ cache = CacheIdle

(* The application version has passed its pre-deployment evaluation: from  *)
(* here on nothing that a workload instance's call reads of it changes.    *)
gateOpen ==
    storeApp.exists /\ IsSucceeded(storeApp.status.PreDeploymentEvaluationStatus)

(* The two entities are created together, before the application version   *)
(* is through its pre-deployment evaluation.                               *)
CreateWorkloadInstance ==
    /\ ~storeWli.exists
    /\ ~gateOpen
    /\ \E spec \in WliSpecs :
           storeWli' = [exists |-> TRUE, spec |-> spec, status |-> NewStatusWli]
    /\ UNCHANGED <<storeApp, workers, spans, meters, last, rsv, cache>>

CreateAppVersion ==
    /\ ~storeApp.exists
    /\ \E spec \in AppSpecs :
           storeApp' = [exists |-> TRUE, spec |-> spec, status |-> NewStatusApp]
    /\ UNCHANGED <<storeWli, workers, spans, meters, last, rsv, cache>>

(* The stored application versions, as List returns them *)
allAppVersions ==
    IF storeApp.exists THEN <<[spec |-> storeApp.spec, status |-> storeApp.status]>>
    ELSE <<>>

(* What a step of worker w leaves behind: the store, the caches and        *)
(* meters, the worker (idle again after a return, else in its callback),   *)
(* and for the other calls on the same object whether the stored object    *)
(* has changed since they read it.                                         *)
Commit(w, c) ==
    LET changed == IF c.kind = "wli" THEN c.store.status # storeWli.status
                   ELSE c.store.status # storeApp.status
        mine == IF c.done THEN IdleWorker
                ELSE [pc |-> "callback", kind |-> c.kind, obj |-> c.obj, stale |-> c.stale,
                      phase |-> c.phase, oldPhase |-> c.oldPhase, oldStatus |-> c.oldStatus,
                      span |-> c.span, call |-> c.call]
        ws == [v \in Workers |->
               IF v = w THEN mine
               ELSE IF workers[v].pc = "callback" /\ workers[v].kind = c.kind /\ changed
               THEN [workers[v] EXCEPT !.stale = TRUE]
               ELSE workers[v]]
    IN  /\ storeWli' = IF c.kind = "wli" THEN c.store ELSE storeWli
        /\ storeApp' = IF c.kind = "app" THEN c.store ELSE c.apps
        /\ spans' = spanCollect(c.sp, heldSpans(ws))
        /\ meters' = c.m
        /\ last' = IF c.done THEN c.call ELSE last
        /\ workers' = ws
        /\ UNCHANGED <<rsv, cache>>

(* The faults a call can meet before its callback: Get, List or a status   *)
(* write fails.  Each of them makes the call return, so a call meets one.  *)
Faults == {"none", "get", "list", "update1", "update2"}

(* No returned call waits for the scheduler to take its result *)
NoCall == NewCall("", ZeroAppVersion)

(* A call whose object has changed in the store since it read it can only *)
(* return its callback's error (the callback's write meets a conflict): it *)
(* touches nothing shared, so it is shown returning before other calls go  *)
(* on.                                                                     *)
Ready(w) ==
    /\ workers[w].pc = "callback"
    /\ workers[w].stale \/ \A v \in Workers : ~workers[v].stale

(* The worker pool hands a call to its first idle worker.  Calls for the   *)
(* two kinds share nothing but the stored application version, which the   *)
(* workload instance's call reads in its first step, so their callbacks    *)
(* commute and only calls of one kind are shown overlapping.               *)
FirstIdle(w, kind) ==
    /\ workers[w].pc = "idle"
    /\ \A v \in Workers : ~workers[v].stale
    /\ \A v \in Workers : v < w => workers[v].pc # "idle"
    /\ \A v \in Workers : workers[v].pc = "callback" => workers[v].kind = kind

(* Worker w runs the workload instance's Reconcile, meeting the fault *)
WliCall(w, fault) ==
    Commit(w, WliReconcile(
        NewCtx("wli", [spec |-> storeWli.spec, status |-> storeWli.status],
               storeWli, heldSpans(workers)),
        storeWli.exists, allAppVersions, fault = "get", fault = "list",
        fault # "update1", fault # "update2"))

(* Worker w's call goes on from the return of its callback *)
WliReturn(w, outcome, okCallback, ok) ==
    Commit(w, handlePhaseWliFinish(
        [NewCtx("wli", workers[w].obj, storeWli, heldSpans(workers)) EXCEPT
            !.stale = workers[w].stale, !.phase = workers[w].phase,
            !.oldPhase = workers[w].oldPhase, !.oldStatus = workers[w].oldStatus,
            !.span = workers[w].span, !.call = workers[w].call],
        outcome, okCallback, ok))

(* A worker runs Reconcile for the workload instance *)
WliBegin(w) ==
    /\ last = NoCall
    /\ FirstIdle(w, "wli")
    /\ meters.DeploymentCount < MaxCount
    /\ \E fault \in Faults : WliCall(w, fault)

(* The callback of a workload instance phase returns *)
WliFinish(w) ==
    /\ last = NoCall
    /\ Ready(w)
    /\ workers[w].kind = "wli"
    /\ \E outcome \in Outcomes, okCallback, ok \in BOOLEAN :
           WliReturn(w, outcome, okCallback, ok)

(* Worker w runs the application version's Reconcile, meeting the fault *)
AppCall(w, fault) ==
    Commit(w, AppReconcile(
        NewCtx("app", [spec |-> storeApp.spec, status |-> storeApp.status],
               storeApp, heldSpans(workers)),
        storeApp.exists, fault = "get", fault # "update1", fault # "update2"))

(* Worker w's call goes on from the return of its callback *)
AppReturn(w, outcome, okCallback, ok) ==
    Commit(w, handlePhaseAppFinish(
        [NewCtx("app", workers[w].obj, storeApp, heldSpans(workers)) EXCEPT
            !.stale = workers[w].stale, !.phase = workers[w].phase,
            !.oldPhase = workers[w].oldPhase, !.oldStatus = workers[w].oldStatus,
            !.span = workers[w].span, !.call = workers[w].call],
        outcome, okCallback, ok))

(* A worker runs Reconcile for the application version.  Once the          *)
(* application version is through its pre-deployment evaluation, its calls *)
(* and those of the workload instance read and write nothing in common:    *)
(* its later phases are shown where no workload instance exists.           *)
AppBegin(w) ==
    /\ last = NoCall
    /\ storeWli.exists => ~gateOpen
    /\ FirstIdle(w, "app")
    /\ meters.AppCount < MaxCount
    /\ \E fault \in Faults \ {"list"} : AppCall(w, fault)

(* The callback of an application version phase returns *)
AppFinish(w) ==
    /\ last = NoCall
    /\ Ready(w)
    /\ workers[w].kind = "app"
    /\ \E outcome \in Outcomes, okCallback, ok \in BOOLEAN :
           AppReturn(w, outcome, okCallback, ok)

(* A binding is dead when no call will look its key up again: the phase    *)
(* it was made for is finished in the store and no running call is in that *)
(* phase's callback.                                                       *)
deadBinding(s) ==
    /\ IF s.kind = "wli" THEN IsSucceeded(storeWli.status[WliPhaseField(s.phase)])
       ELSE AppPhaseFinished(storeApp, s.phase)
    /\ \A w \in Workers : ~(workers[w].pc = "callback" /\ workers[w].kind = s.kind
                              /\ workers[w].phase = s.phase)

(* The scheduler takes the result of the call that has returned.  The dead *)
(* bindings, which the program keeps and never reads, leave the model here. *)
TakeResult ==
    /\ last # NoCall
    /\ last' = NoCall
    /\ spans' = spanCollect([spans EXCEPT !.bind = [k \in Kinds |->
                                 {s \in spans.bind[k] : ~deadBinding(s)}]],
                            heldSpans(workers))
    /\ UNCHANGED <<storeWli, storeApp, workers, meters, rsv, cache>>

Next ==
    \/ CreateWorkloadInstance
    \/ CreateAppVersion
    \/ \E w \in Workers : WliBegin(w)
    \/ \E w \in Workers : WliFinish(w)
    \/ \E w \in Workers : AppBegin(w)
    \/ \E w \in Workers : AppFinish(w)
    \/ TakeResult

Spec == Init /\ [][Next]_vars

----------------------------------------------------------------------------
(* The resolver on its own: it is run once on a list of application        *)
(* versions, in the order List returns them.                               *)

RsvVersions == {Ver(v, 1, minor, 0) : v \in BOOLEAN, minor \in {2, 10}}

RsvApps ==
    {[spec |-> [Namespace |-> ns, AppName |-> "app", Version |-> ver,
                Workloads |-> <<[Name |-> "workload1", Version |-> wv]>>,
                TraceId |-> "trace-a"],
      status |-> NewStatusApp] :
        ns \in {"default", "other"}, ver \in RsvVersions, wv \in {"1.0.0", "2.0.0"}}

RECURSIVE SeqsUpTo(_, _)
SeqsUpTo(S, n) ==
    IF n = 0 THEN {<<>>}
    ELSE LET shorter == SeqsUpTo(S, n - 1)
         IN  shorter \cup {Append(q, x) : q \in {r \in shorter : Len(r) = n - 1}, x \in S}

InitResolver ==
    /\ storeWli = [exists |-> FALSE, spec |-> CHOOSE x \in WliSpecs : TRUE,
                   status |-> NewStatusWli]
    /\ storeApp = [exists |-> FALSE, spec |-> ZeroAppVersion.spec, status |-> NewStatusApp]
    /\ workers = [w \in Workers |-> IdleWorker]
    /\ spans = [bind |-> [k \in Kinds |-> {}], ends |-> <<>>]
    /\ meters = [DeploymentCount |-> 0, AppCount |-> 0]
    /\ last = NoCall
    /\ \E apps \in SeqsUpTo(RsvApps, MaxApps) : rsv = [RsvIdle EXCEPT !.apps = apps]
    /\ cache = CacheIdle

Resolve ==
    /\ ~rsv.ran
    /\ rsv' = [rsv EXCEPT
                  !.ran = TRUE,
                  !.out = getAppVersionForWorkloadInstance(
                              listInNamespace(rsv.apps, rsv.wli.spec.Namespace), rsv.wli)]
    /\ UNCHANGED <<storeWli, storeApp, workers, spans, meters, last, cache>>

NextResolver == Resolve

SpecResolver == InitResolver /\ [][NextResolver]_vars

----------------------------------------------------------------------------
(* The span cache on its own: the worker routines of one reconciler inside  *)
(* getSpan and unbindSpan, statement by statement.  bindCRDSpan is a plain  *)
(* map and the functions take no lock, so a call enters its map operation   *)
(* whatever the other calls are doing.                                      *)

(* The call is inside a map operation: the lookup of line 413, the insert   *)
(* of line 418, the delete of line 423                                      *)
InsideCache(w) == cache.pc[w] \in {"lookup", "insert", "delete"}
WritingCache(w) == cache.pc[w] \in {"insert", "delete"}

RestUnchanged == UNCHANGED <<storeWli, storeApp, workers, spans, meters, last, rsv>>

(* getSpan is called: the call reaches the lookup *)
GetSpanEnter(w) ==
    /\ ~cache.crashed /\ cache.pc[w] = "idle"
    /\ \E k \in CacheKeys :
           cache' = [cache EXCEPT !.pc[w] = "lookup", !.key[w] = k, !.span[w] = 0]
    /\ RestUnchanged

(* if span, ok := r.bindCRDSpan[wliName]; ok { return ctx, span } *)
GetSpanLookup(w) ==
    /\ ~cache.crashed /\ cache.pc[w] = "lookup"
    /\ cache' = IF cache.bind[cache.key[w]] # 0
                 THEN [cache EXCEPT !.pc[w] = "idle", !.span[w] = cache.bind[cache.key[w]]]
                 ELSE [cache EXCEPT !.pc[w] = "start"]
    /\ RestUnchanged

(* ctx, span := r.Tracer.Start(...): the call reaches the insert *)
GetSpanStart(w) ==
    /\ ~cache.crashed /\ cache.pc[w] = "start"
    /\ cache.started < MaxSpans
    /\ cache' = [cache EXCEPT !.pc[w] = "insert", !.started = @ + 1,
                               !.span[w] = cache.started + 1]
    /\ RestUnchanged

(* r.bindCRDSpan[wliName] = span *)
GetSpanBind(w) ==
    /\ ~cache.crashed /\ cache.pc[w] = "insert"
    /\ cache' = [cache EXCEPT !.pc[w] = "idle", !.bind[cache.key[w]] = cache.span[w]]
    /\ RestUnchanged

(* unbindSpan is called: the call reaches the delete *)
UnbindEnter(w) ==
    /\ ~cache.crashed /\ cache.pc[w] = "idle"
    /\ \E k \in CacheKeys :
           cache' = [cache EXCEPT !.pc[w] = "delete", !.key[w] = k, !.span[w] = 0]
    /\ RestUnchanged

(* delete(r.bindCRDSpan, r.getSpanName(wli, phase)) *)
UnbindDelete(w) ==
    /\ ~cache.crashed /\ cache.pc[w] = "delete"
    /\ cache' = [cache EXCEPT !.pc[w] = "idle", !.bind[cache.key[w]] = 0]
    /\ RestUnchanged

(* Two calls are inside the map at once and one of them writes: the map     *)
(* access is a data race, which the Go runtime may answer with a fatal      *)
(* error; the calls may as well go on.                                      *)
CacheCrash ==
    /\ ~cache.crashed
    /\ \E w1, w2 \in Workers :
           w1 # w2 /\ InsideCache(w1) /\ WritingCache(w2)
    /\ cache' = [cache EXCEPT !.crashed = TRUE]
    /\ RestUnchanged

InitCache ==
    /\ storeWli = [exists |-> FALSE, spec |-> CHOOSE x \in WliSpecs : TRUE,
                   status |-> NewStatusWli]
    /\ storeApp = [exists |-> FALSE, spec |-> ZeroAppVersion.spec, status |-> NewStatusApp]
    /\ workers = [w \in Workers |-> IdleWorker]
    /\ spans = [bind |-> [k \in Kinds |-> {}], ends |-> <<>>]
    /\ meters = [DeploymentCount |-> 0, AppCount |-> 0]
    /\ last = NoCall
    /\ rsv = RsvIdle
    /\ cache = CacheIdle

NextCache ==
    \/ \E w \in Workers : GetSpanEnter(w)
    \/ \E w \in Workers : GetSpanLookup(w)
    \/ \E w \in Workers : GetSpanStart(w)
    \/ \E w \in Workers : GetSpanBind(w)
    \/ \E w \in Workers : UnbindEnter(w)
    \/ \E w \in Workers : UnbindDelete(w)
    \/ CacheCrash

SpecCache == InitCache /\ [][NextCache]_vars

----------------------------------------------------------------------------
(* The rollout of one application version and its workload instance under  *)
(* a fair scheduler: every requeue is honoured, a status write that is     *)
(* tried again and again succeeds in the end, and a callback that is       *)
(* invoked again and again returns Succeeded in the end and never Failed.  *)

LiveOutcomes == {StateProgressing, StateSucceeded, "error"}

(* The persisted overall Status is Succeeded and the EndTime is set *)
Completed(store) ==
    store.status.Status = StateSucceeded /\ store.status.EndTime # ZeroTime

(* Both entities exist, new, the workload instance one of the application  *)
(* version's workloads                                                     *)
InitLive ==
    /\ \E spec \in WliSpecs :
           storeWli = [exists |-> TRUE, spec |-> spec, status |-> NewStatusWli]
    /\ \E spec \in {a \in AppSpecs : a.Workloads[1].Version = "1.0.0"} :
           storeApp = [exists |-> TRUE, spec |-> spec, status |-> NewStatusApp]
    /\ workers = [w \in Workers |-> IdleWorker]
    /\ spans = [bind |-> [k \in Kinds |-> {}], ends |-> <<>>]
    /\ meters = [DeploymentCount |-> 0, AppCount |-> 0]
    /\ last = NoCall
    /\ rsv = RsvIdle
    /\ cache = CacheIdle

(* A requeue of the entity is pending.  Reconcile returns neither a        *)
(* requeue nor an error from the completion step alone (lines 255, 657),   *)
(* whose stored write leaves CurrentPhase Completed; the scheduler calls   *)
(* Reconcile again after every other return.                               *)
RequeuePending(store) == store.status.CurrentPhase # PhaseCompleted

LiveWliBeginWith(w, fault) ==
    /\ last = NoCall
    /\ RequeuePending(storeWli)
    /\ FirstIdle(w, "wli")
    /\ meters.DeploymentCount < MaxCount
    /\ WliCall(w, fault)

LiveWliFinishWith(w, outcome, okCallback, ok) ==
    /\ last = NoCall
    /\ Ready(w)
    /\ workers[w].kind = "wli"
    /\ WliReturn(w, outcome, okCallback, ok)

(* The application version's calls past the gate are shown after the       *)
(* workload instance's rollout: the two read and write nothing in common   *)
(* from there on.                                                          *)
LiveAppBeginWith(w, fault) ==
    /\ last = NoCall
    /\ RequeuePending(storeApp)
    /\ gateOpen => Completed(storeWli)
    /\ FirstIdle(w, "app")
    /\ meters.AppCount < MaxCount
    /\ AppCall(w, fault)

LiveAppFinishWith(w, outcome, okCallback, ok) ==
    /\ last = NoCall
    /\ Ready(w)
    /\ workers[w].kind = "app"
    /\ AppReturn(w, outcome, okCallback, ok)

LiveWliBegin(w) == \E fault \in Faults : LiveWliBeginWith(w, fault)

LiveWliFinish(w) ==
    \E outcome \in LiveOutcomes, okCallback, ok \in BOOLEAN :
        LiveWliFinishWith(w, outcome, okCallback, ok)

LiveAppBegin(w) == \E fault \in Faults \ {"list"} : LiveAppBeginWith(w, fault)

LiveAppFinish(w) ==
    \E outcome \in LiveOutcomes, okCallback, ok \in BOOLEAN :
        LiveAppFinishWith(w, outcome, okCallback, ok)

NextLive ==
    \/ \E w \in Workers : LiveWliBegin(w)
    \/ \E w \in Workers : LiveWliFinish(w)
    \/ \E w \in Workers : LiveAppBegin(w)
    \/ \E w \in Workers : LiveAppFinish(w)
    \/ TakeResult

(* The steps that meet no fault: Get, List and the writes succeed, the     *)
(* callback returns Succeeded and has recorded it                          *)
GoodWliBegin == \E w \in Workers : LiveWliBeginWith(w, "none")
GoodWliFinish == \E w \in Workers : LiveWliFinishWith(w, StateSucceeded, TRUE, TRUE)
GoodAppBegin == \E w \in Workers : LiveAppBeginWith(w, "none")
GoodAppFinish == \E w \in Workers : LiveAppFinishWith(w, StateSucceeded, TRUE, TRUE)

(* When the steps of each kind can be taken: the guards of the actions     *)
(* (the step itself, Commit of the call's effects, is always possible)     *)
CanWliBegin ==
    /\ last = NoCall /\ meters.DeploymentCount < MaxCount
    /\ RequeuePending(storeWli)
    /\ \E w \in Workers : FirstIdle(w, "wli")

CanWliFinish == last = NoCall /\ \E w \in Workers : Ready(w) /\ workers[w].kind = "wli"

CanAppBegin ==
    /\ last = NoCall /\ meters.AppCount < MaxCount
    /\ RequeuePending(storeApp)
    /\ gateOpen => Completed(storeWli)
    /\ \E w \in Workers : FirstIdle(w, "app")

CanAppFinish == last = NoCall /\ \E w \in Workers : Ready(w) /\ workers[w].kind = "app"

(* Strong fairness of the fault-free steps, written with the guards above: *)
(* a step that can be taken again and again is taken without a fault again *)
(* and again.                                                              *)
Fairness ==
    /\ WF_vars(TakeResult)
    /\ <>[]~CanWliBegin \/ []<><<GoodWliBegin>>_vars
    /\ <>[]~CanWliFinish \/ []<><<GoodWliFinish>>_vars
    /\ <>[]~CanAppBegin \/ []<><<GoodAppBegin>>_vars
    /\ <>[]~CanAppFinish \/ []<><<GoodAppFinish>>_vars

SpecLive == InitLive /\ [][NextLive]_vars /\ Fairness

----------------------------------------------------------------------------
(* Properties *)

Stores == [wli |-> storeWli, app |-> storeApp]
TerminalCount == [wli |-> meters.DeploymentCount, app |-> meters.AppCount]

(* C1 -- Idempotence: a Reconcile call that found its entity with the       *)
(* persisted overall Status Succeeded or Failed issues no status write that *)
(* changes the persisted status, does not increment the terminal counter    *)
(* and records no duration sample.  The writes looked at are those of       *)
(* Reconcile and handlePhase themselves.                                    *)
C1_Idempotence ==
    (last # NoCall /\ last.loaded /\ IsCompleted(last.before.Status)) =>
        /\ \A i \in DOMAIN last.writes :
               (last.writes[i].ok /\ last.writes[i].by # "callback")
                   => last.writes[i].status = last.before
        /\ last.counted = 0
        /\ last.sampled = <<>>

(* C2 -- The terminal transition is recorded exactly once: the terminal     *)
(* counter of an entity is never incremented twice, and when the entity is  *)
(* persisted as ended (overall Status Succeeded or Failed, EndTime stamped) *)
(* it has been incremented once.  Writes are rejected and calls overlap in  *)
(* the behaviours checked.                                                  *)
C2_TerminalOnce ==
    \A k \in Kinds :
        /\ TerminalCount[k] <= 1
        /\ (IsCompleted(Stores[k].status.Status) /\ Stores[k].status.EndTime # ZeroTime)
               => TerminalCount[k] = 1

(* C3 -- EndTime invariant: in every persisted state EndTime is set iff the *)
(* overall Status is Succeeded or Failed, and a set EndTime never changes.  *)
C3_EndTime ==
    [][\A k \in Kinds :
          /\ (Stores[k].status.EndTime # ZeroTime <=> IsCompleted(Stores[k].status.Status))'
          /\ Stores[k].status.EndTime # ZeroTime =>
                 (Stores[k].status.EndTime)' = Stores[k].status.EndTime]_vars

(* C4 -- Succeeded and Failed are absorbing: a persisted overall Status     *)
(* that is Succeeded or Failed never changes, and a created entity starts   *)
(* Pending.                                                                 *)
C4_Absorbing ==
    [][\A k \in Kinds :
          /\ IsCompleted(Stores[k].status.Status) =>
                 (Stores[k].status.Status)' = Stores[k].status.Status
          /\ (~Stores[k].exists /\ (Stores[k].exists)') =>
                 (Stores[k].status.Status)' = StatePending]_vars

(* The calls in view: those running a callback and the one just returned *)
Calls ==
    {workers[w].call : w \in {v \in Workers : workers[v].pc = "callback"}}
        \cup (IF last # NoCall /\ last.loaded THEN {last} ELSE {})

PhaseFields ==
    [wli |-> {"PreDeploymentStatus", "PreDeploymentEvaluationStatus", "DeploymentStatus",
              "PostDeploymentStatus", "PostDeploymentEvaluationStatus"},
     app |-> {"PreDeploymentStatus", "PreDeploymentEvaluationStatus", "WorkloadOverallStatus",
              "PostDeploymentStatus", "PostDeploymentEvaluationStatus"}]

StateRank(state) ==
    IF state = StatePending THEN 0 ELSE IF state = StateProgressing THEN 1 ELSE 2

(* C5 -- Monotonicity: no persisted phase status moves backward in the      *)
(* order Pending -> Progressing -> {Succeeded | Failed}, and one that is    *)
(* Succeeded or Failed keeps its value.                                     *)
C5_Monotone ==
    [][\A k \in Kinds : \A f \in PhaseFields[k] :
          /\ StateRank(Stores[k].status[f]) <= StateRank((Stores[k].status[f])')
          /\ IsCompleted(Stores[k].status[f]) =>
                 (Stores[k].status[f])' = Stores[k].status[f]]_vars

(* A workload instance is reconciled again after its deployment has failed *)
C5_Witness ==
    /\ last # NoCall /\ last.kind = "wli" /\ last.loaded
    /\ IsSucceeded(last.before.PreDeploymentEvaluationStatus)
    /\ IsFailed(last.before.DeploymentStatus)
    /\ storeWli.status.DeploymentStatus = StateFailed

PhaseOrder ==
    [wli |-> <<PhaseWorkloadPreDeployment, PhaseAppPreEvaluation, PhaseWorkloadDeployment,
               PhaseWorkloadPostDeployment, PhaseAppPostEvaluation>>,
     app |-> <<PhaseAppPreDeployment, PhaseAppPreEvaluation, PhaseAppDeployment,
               PhaseAppPostDeployment, PhaseAppPostEvaluation>>]

(* What the accessor of a phase reports on the status a call has read *)
AccessorSucceeded(kind, status, phase) ==
    IF kind = "wli" THEN IsSucceeded(status[WliPhaseField(phase)])
    ELSE AppPhaseFinished([status |-> status], phase)

(* C6 -- Single phase per call, in order: a call invokes at most one phase  *)
(* callback, and it is the callback of the first phase of the entity's      *)
(* phase order whose accessor reports not-succeeded on what the call read.  *)
C6_SinglePhase ==
    \A c \in Calls :
        /\ Len(c.callbacks) <= 1
        /\ Len(c.callbacks) = 1 =>
               \E i \in 1..5 :
                   /\ PhaseOrder[c.kind][i] = c.callbacks[1]
                   /\ ~AccessorSucceeded(c.kind, c.before, PhaseOrder[c.kind][i])
                   /\ \A j \in 1..(i - 1) :
                          AccessorSucceeded(c.kind, c.before, PhaseOrder[c.kind][j])

(* A call has run the callback of the third phase *)
C6_Witness ==
    /\ last # NoCall /\ last.kind = "wli"
    /\ last.callbacks = <<PhaseWorkloadDeployment>>
    /\ last.verdict = StateSucceeded

(* The application version matches the workload instance *)
MatchesInstance(app, wliSpec) ==
    /\ app.spec.Namespace = wliSpec.Namespace
    /\ app.spec.AppName = wliSpec.AppName
    /\ \E i \in DOMAIN app.spec.Workloads :
           /\ app.spec.Workloads[i].Version = wliSpec.Version
           /\ compositeWorkloadName(app.spec.AppName, app.spec.Workloads[i].Name)
                  = wliSpec.WorkloadName

(* C7 -- Gate correctness: a workload instance call issues a status write   *)
(* (the Pending -> Progressing advance of the pre-deployment status is      *)
(* one) or invokes a phase callback only if its resolver found a stored     *)
(* application version that matches the instance and whose pre-deployment   *)
(* evaluation status is Succeeded.                                          *)
C7_Gate ==
    \A c \in Calls :
        (c.kind = "wli" /\ (c.writes # <<>> \/ c.callbacks # <<>>)) =>
            /\ c.resolver = "found"
            /\ storeApp.exists /\ c.app.spec = storeApp.spec
            /\ MatchesInstance(c.app, storeWli.spec)
            /\ IsSucceeded(c.app.status.PreDeploymentEvaluationStatus)

(* A call has passed the gate, advanced the pre-deployment status and run   *)
(* the pre-deployment callback                                              *)
C7_Witness ==
    /\ last # NoCall /\ last.kind = "wli"
    /\ last.before.PreDeploymentStatus = StatePending
    /\ last.callbacks = <<PhaseWorkloadPreDeployment>>
    /\ Len(last.writes) >= 1 /\ last.writes[1].ok
    /\ last.writes[1].status.PreDeploymentStatus = StateProgressing

(* The version's numbers as a semantic version, with or without the "v" *)
AsSemver(x) == [x EXCEPT !.v = TRUE]

(* The application versions of the list that match the instance *)
RsvCandidates ==
    {rsv.apps[i] : i \in {j \in DOMAIN rsv.apps : MatchesInstance(rsv.apps[j], rsv.wli.spec)}}

(* C8 -- Resolver selection: of the application versions that match the     *)
(* workload instance the resolver returns one with the highest semantic     *)
(* version, whatever the order of the list (of 1.2.0 and 1.10.0 it returns  *)
(* 1.10.0).                                                                 *)
C8_HighestVersion ==
    (rsv.ran /\ RsvCandidates # {}) =>
        /\ rsv.out.found
        /\ rsv.out.app \in RsvCandidates
        /\ \A a \in RsvCandidates :
               semverCompare(AsSemver(rsv.out.app.spec.Version),
                             AsSemver(a.spec.Version)) >= 0

(* The call was stopped at the gate *)
GateStopped(c) ==
    /\ c.kind = "wli" /\ c.loaded
    /\ \/ c.resolver \in {"error", "notfound"}
       \/ c.resolver = "found" /\ ~IsSucceeded(c.app.status.PreDeploymentEvaluationStatus)

(* C9 -- Gate retry directives: resolver error -> 10s and the error; no     *)
(* matching application version -> 10s and an error; pre-deployment         *)
(* evaluation of the application Failed -> 60s, no error; neither Succeeded *)
(* nor Failed -> 20s, no error.                                             *)
C9_GateDirectives ==
    (last # NoCall /\ GateStopped(last)) =>
        LET appPreEval == last.app.status.PreDeploymentEvaluationStatus
        IN  /\ last.resolver = "error" => last.result = Result(TRUE, 10, "GetAppVersion")
            /\ last.resolver = "notfound" =>
                   last.result = Result(TRUE, 10, "AppVersionNotFound")
            /\ (last.resolver = "found" /\ IsFailed(appPreEval)) =>
                   last.result = Result(TRUE, 60, "")
            /\ (last.resolver = "found" /\ ~IsFailed(appPreEval)) =>
                   last.result = Result(TRUE, 20, "")

(* A call found the application version with a failed pre-deployment        *)
(* evaluation                                                               *)
C9_Witness ==
    /\ last # NoCall /\ GateStopped(last)
    /\ last.resolver = "found"
    /\ IsFailed(last.app.status.PreDeploymentEvaluationStatus)

(* C10 -- A call stopped at the gate issues no status write and leaves the  *)
(* persisted status as it read it; without any application version it       *)
(* returns the 10s retry.                                                   *)
C10_GateFrame ==
    (last # NoCall /\ GateStopped(last)) =>
        /\ last.writes = <<>>
        /\ storeWli.status = last.before
        /\ ~storeApp.exists => last.result.RequeueAfter = 10 /\ last.result.Requeue

(* Scenario C: the instance is reconciled before any application version    *)
(* exists                                                                   *)
C10_Witness ==
    /\ last # NoCall /\ GateStopped(last)
    /\ ~storeApp.exists
    /\ last.resolver = "notfound"
    /\ storeWli.status = NewStatusWli

(* Some phase of the entity is Failed in the status the call read *)
PhaseFailedAtStart(c) ==
    \E f \in PhaseFields[c.kind] : IsFailed(c.before[f])

(* The call went through Get and, for a workload instance, through the gate *)
ReachedPhases(c) ==
    c.loaded /\ (c.kind = "wli" => c.resolver = "found" /\
                    IsSucceeded(c.app.status.PreDeploymentEvaluationStatus))

(* C11 -- Failed-phase short-circuit: a Reconcile call that starts with a   *)
(* phase status Failed invokes no phase callback, issues no status write    *)
(* and returns a requeue after 60 seconds with no error.                    *)
C11_FailedShortCircuit ==
    (last # NoCall /\ ReachedPhases(last) /\ PhaseFailedAtStart(last)) =>
        /\ last.callbacks = <<>>
        /\ last.writes = <<>>
        /\ last.result = Result(TRUE, 60, "")

(* The call's callback returned an error *)
CallbackErrored(c) == c.loaded /\ c.callbacks # <<>> /\ c.verdict = "error"

(* C12 -- Callback error path: when the phase callback returns an error the *)
(* call returns an immediate requeue with the error, has recorded a         *)
(* ReconcileErrored event for the phase, its phase driver has issued no     *)
(* status write, and the call has changed neither overall Status nor        *)
(* EndTime nor any meter.                                                   *)
C12_CallbackError ==
    (last # NoCall /\ CallbackErrored(last)) =>
        /\ last.result = Result(TRUE, 0, "callback")
        /\ <<"Warning", last.callbacks[1], "ReconcileErrored">> \in last.events
        /\ \A i \in DOMAIN last.writes :
               /\ last.writes[i].by # "handlePhase"
               /\ last.writes[i].ok =>
                      /\ last.writes[i].status.Status = last.before.Status
                      /\ last.writes[i].status.EndTime = last.before.EndTime
        /\ last.counted = 0
        /\ last.sampled = <<>>

(* A callback of the application version returned an error *)
C12_Witness ==
    /\ last # NoCall /\ CallbackErrored(last)
    /\ last.kind = "app"
    /\ last.callbacks = <<PhaseAppPreEvaluation>>
    /\ last.before.Status = StateSucceeded

(* The call's callback returned a verdict *)
CallbackReturned(c) == c.loaded /\ c.callbacks # <<>> /\ c.verdict \in Verdicts

(* C13 -- Whenever the phase callback returns without error, whatever its   *)
(* verdict and whether or not the status write that follows succeeds, the   *)
(* call returns a requeue after 5 seconds with no error.                    *)
C13_RequeueFive ==
    (last # NoCall /\ CallbackReturned(last)) => last.result = Result(TRUE, 5, "")

(* The callback returned Failed and the status write of the phase driver    *)
(* was rejected                                                             *)
C13_Witness ==
    /\ last # NoCall /\ CallbackReturned(last)
    /\ last.verdict = StateFailed
    /\ last.writes[Len(last.writes)].by = "handlePhase"
    /\ ~last.writes[Len(last.writes)].ok
    /\ last.result.RequeueAfter = 5

(* C14 -- Failed outcome: when a phase callback returns Failed, the same    *)
(* call sets the overall Status to Failed, stamps EndTime if unset (a set   *)
(* one is kept), increments the terminal counter once, ends the phase's     *)
(* span and releases its binding, and submits Failed with the EndTime in a  *)
(* status write.                                                            *)
C14_FailedOutcome ==
    (last # NoCall /\ CallbackReturned(last) /\ last.verdict = StateFailed) =>
        LET w == last.writes[Len(last.writes)]
        IN  /\ w.by = "handlePhase"
            /\ w.status.Status = StateFailed
            /\ w.status.EndTime # ZeroTime
            /\ last.before.EndTime # ZeroTime => w.status.EndTime = last.before.EndTime
            /\ last.counted = 1
            /\ Cardinality(last.ended) = 1 /\ Cardinality(last.released) = 1
            /\ \A sp \in last.ended :
                   sp.phase = last.callbacks[1] /\ sp.key \in last.released

(* The deployment of a workload instance failed and the write went through *)
C14_Witness ==
    /\ last # NoCall /\ CallbackReturned(last) /\ last.verdict = StateFailed
    /\ last.kind = "wli"
    /\ last.callbacks = <<PhaseWorkloadDeployment>>
    /\ storeWli.status.Status = StateFailed
    /\ storeWli.status.EndTime # ZeroTime
    /\ meters.DeploymentCount = 1

(* The call found every phase Succeeded and no EndTime: it is the call that *)
(* completes the entity                                                     *)
Completing(c) ==
    /\ ReachedPhases(c)
    /\ \A f \in PhaseFields[c.kind] : IsSucceeded(c.before[f])
    /\ c.before.EndTime = ZeroTime

Finished(c) == \E e \in c.events : e[3] = "Finished"

(* C15 -- Completion ordering: the call that completes an entity submits    *)
(* overall Status Succeeded with a stamped EndTime; when its writes have    *)
(* succeeded it has incremented the counter once, recorded the duration     *)
(* EndTime - StartTime once and recorded the Finished event; when a write   *)
(* was rejected it has emitted none of the three.                           *)
C15_CompletionOrder ==
    (last # NoCall /\ Completing(last)) =>
        LET w == last.writes[Len(last.writes)]
            written == \A i \in DOMAIN last.writes : last.writes[i].ok
        IN  /\ last.writes # <<>>
            /\ written =>
                   /\ w.status.Status = StateSucceeded
                   /\ w.status.EndTime # ZeroTime
                   /\ last.counted = 1
                   /\ last.sampled = <<w.status.EndTime - w.status.StartTime>>
                   /\ Finished(last)
            /\ ~written =>
                   /\ last.counted = 0
                   /\ last.sampled = <<>>
                   /\ ~Finished(last)

(* The call ran the completion step, or a part of it *)
CompletionEmitted(c) ==
    /\ c.loaded /\ c.callbacks = <<>>
    /\ Finished(c) \/ c.counted > 0 \/ c.sampled # <<>>

(* C16 -- The completion step (Finished event, completion counter,          *)
(* duration gauge) is reached only by an entity all of whose phases are     *)
(* Succeeded: none of them is emitted for an entity with a Failed phase.    *)
C16_CompletionOnlySucceeded ==
    (last # NoCall /\ CompletionEmitted(last)) =>
        \A f \in PhaseFields[last.kind] : IsSucceeded(last.before[f])

(* C17 -- Span cache mutual exclusion: no two calls are inside a map        *)
(* operation of the span cache at the same time, and no two calls are       *)
(* between the failed lookup and the insert of getSpan for the same key     *)
(* (they would both create and bind a span).                                *)
C17_CacheMutex ==
    \A w1, w2 \in Workers :
        w1 # w2 =>
            /\ ~(InsideCache(w1) /\ InsideCache(w2))
            /\ ~(/\ cache.pc[w1] \in {"start", "insert"}
                  /\ cache.pc[w2] \in {"start", "insert"}
                  /\ cache.key[w1] = cache.key[w2])

(* The number of terminal outcomes of the call's phase: 1 when its callback *)
(* returned Succeeded or Failed                                             *)
TerminalOutcomes(c) == IF CallbackReturned(c) /\ IsCompleted(c.verdict) THEN 1 ELSE 0

(* C18 -- Span lifecycle: no span is ended more than once, also when calls  *)
(* for the same entity overlap, and a call ends a span and releases its     *)
(* binding at most once per terminal outcome of its phase, and unbinds no   *)
(* span without one.                                                        *)
C18_SpanLifecycle ==
    /\ \A sp \in DOMAIN spans.ends : spans.ends[sp] <= 1
    /\ last # NoCall =>
           /\ ~last.endedTwice
           /\ Cardinality(last.ended) <= TerminalOutcomes(last)
           /\ Cardinality(last.released) <= TerminalOutcomes(last)
           /\ last.dropped = {}

(* C19 -- Span binding release: when a call in which a phase reached a      *)
(* terminal outcome returns, the span cache holds no binding for the key of *)
(* that phase and every span created for the key has been ended.            *)
C19_BindingReleased ==
    (last # NoCall /\ TerminalOutcomes(last) = 1) =>
        \A key \in last.released :
            /\ boundSpan(spans, last.kind, key) = {}
            /\ \A sp \in DOMAIN spans.ends :
                   (sp.kind = last.kind /\ sp.key = key) => spans.ends[sp] >= 1

(* A step of the workload instance reconciler: a call runs up to its        *)
(* callback or its return, or goes on from its callback's return            *)
WliStep == \E w \in Workers : WliBegin(w) \/ WliFinish(w)

(* C20 -- The workload instance reconciler only reads application versions: *)
(* no step of a workload instance Reconcile changes the stored state of an  *)
(* application version.                                                     *)
C20_AppReadOnly == [][WliStep => storeApp' = storeApp]_vars

(* A workload instance call has passed the gate on a stored application     *)
(* version, written its own status and returned                             *)
C20_Witness ==
    /\ last # NoCall /\ last.kind = "wli" /\ last.resolver = "found"
    /\ storeApp.exists /\ last.app.spec = storeApp.spec
    /\ last.callbacks # <<>>
    /\ \E i \in 1..Len(last.writes) : last.writes[i].ok

(* The call passed the gate: the resolver found an application version     *)
(* whose pre-deployment evaluation has succeeded                           *)
GateCleared(c) ==
    c.resolver = "found" /\ IsSucceeded(c.app.status.PreDeploymentEvaluationStatus)

(* The trace id of the call's object is copied only into an empty one and  *)
(* past the gate, and does not change once it is set                       *)
TraceSetOnce(c) ==
    /\ Len(c.traces) > 1 =>
           /\ c.traces[1] = NoTrace
           /\ GateCleared(c)
           /\ c.traces[2] = c.app.spec.TraceId
    /\ \A i, j \in 1..Len(c.traces) :
           (i < j /\ c.traces[i] # NoTrace) => c.traces[j] = c.traces[i]

StartedEmitted(c) == \E e \in c.events : e[1] = "Normal" /\ e[3] = "Started"

(* C22 -- Started event: a Reconcile call of either kind records the        *)
(* Started event exactly when the entity's own CurrentPhase was empty at    *)
(* the start of the call (for a call that went on to a phase callback), and *)
(* never when it was not.                                                   *)
C22_StartedEvent ==
    \A c \in Calls :
        /\ StartedEmitted(c) => c.before.CurrentPhase = NoPhase
        /\ (c.callbacks # <<>> /\ c.before.CurrentPhase = NoPhase) => StartedEmitted(c)

(* The status Get returned is that of a new entity *)
Fresh(c) == c.before = (IF c.kind = "wli" THEN NewStatusWli ELSE NewStatusApp)

(* The callback of the call's phase returned Progressing *)
ReturnedProgressing(c) == CallbackReturned(c) /\ c.verdict = StateProgressing

(* The status writes the phase driver issued in the call *)
DriverWrites(c) == {i \in 1..Len(c.writes) : c.writes[i].by = "handlePhase"}

(* C23 -- Progressing outcome on a fresh entity: the call on an entity with *)
(* every phase and the overall Status Pending whose pre-deployment callback *)
(* returns Progressing submits, in a status write of the phase driver, a    *)
(* stamped StartTime, overall Status Progressing and the pre-deployment     *)
(* phase as CurrentPhase, and returns a requeue after 5 seconds; a call     *)
(* that starts with overall Status Progressing and whose callback returns   *)
(* Progressing submits no other overall Status.                             *)
C23_ProgressingFresh ==
    (last # NoCall /\ ReturnedProgressing(last)) =>
        /\ Fresh(last) =>
               /\ last.callbacks \in {<<PhaseWorkloadPreDeployment>>, <<PhaseAppPreDeployment>>}
               /\ last.result = Result(TRUE, 5, "")
               /\ DriverWrites(last) # {}
               /\ \A i \in DriverWrites(last) :
                      /\ last.writes[i].status.StartTime # ZeroTime
                      /\ last.writes[i].status.Status = StateProgressing
                      /\ last.writes[i].status.CurrentPhase = last.callbacks[1]
        /\ last.before.Status = StateProgressing =>
               \A i \in 1..Len(last.writes) :
                   last.writes[i].status.Status = StateProgressing

(* A fresh workload instance past the gate whose pre-deployment callback    *)
(* returned Progressing, the driver's write stored                          *)
C23_Witness ==
    /\ last # NoCall /\ last.kind = "wli" /\ Fresh(last) /\ ReturnedProgressing(last)
    /\ \E i \in DriverWrites(last) : last.writes[i].ok
    /\ storeWli.status.Status = StateProgressing

(* The callback of a phase other than the last returned Succeeded *)
SucceededEarly(c) ==
    /\ CallbackReturned(c) /\ c.verdict = StateSucceeded
    /\ c.callbacks[Len(c.callbacks)] # PhaseAppPostEvaluation

(* C24 -- A Succeeded phase outcome leaves the entity-level result alone:   *)
(* when the callback of a phase that is not the last returns Succeeded, the *)
(* phase driver of either kind submits the overall Status and the EndTime   *)
(* the call started with.                                                   *)
C24_SucceededFrame ==
    (last # NoCall /\ SucceededEarly(last)) =>
        \A i \in DriverWrites(last) :
            /\ last.writes[i].status.Status = last.before.Status
            /\ last.writes[i].status.EndTime = last.before.EndTime

AttemptedPhase(c) ==
    IF c.callbacks # <<>> THEN c.callbacks[Len(c.callbacks)]
    ELSE IF ReachedPhases(c) /\ c.result = Result(TRUE, 60, "")
              /\ \E e \in c.events : e[3] = "Failed"
    THEN (CHOOSE e \in c.events : e[3] = "Failed")[2]
    ELSE NoPhase

(* C26 -- CurrentPhase tracking: when a call in which the phase driver      *)
(* attempted a phase has returned (no other call running), the stored       *)
(* CurrentPhase of the entity is the short name of that phase, also when    *)
(* the attempt ended in a callback error or in the failed-phase             *)
(* short-circuit.                                                           *)
C26_CurrentPhaseTracks ==
    (/\ last # NoCall /\ last.loaded
     /\ AttemptedPhase(last) # NoPhase
     /\ \A w \in Workers : workers[w].pc = "idle") =>
        Stores[last.kind].status.CurrentPhase = AttemptedPhase(last)

(* The status field of the phase the call attempted had left Pending when   *)
(* the callback was invoked: Get returned it so, or the call advanced it    *)
(* and the write was stored                                                 *)
AdvancedBeforeAttempt(c) ==
    LET field == WliPhaseField(c.callbacks[Len(c.callbacks)])
    IN  \/ c.before[field] # StatePending
        \/ \E i \in 1..Len(c.writes) :
               /\ c.writes[i].by = "Reconcile" /\ c.writes[i].ok
               /\ c.writes[i].status[field] = StateProgressing

(* C27 -- A phase's status leaves Pending before the phase is attempted:    *)
(* whenever the workload instance reconciler invokes the phase driver for a *)
(* phase, that phase's status field has been advanced from Pending to       *)
(* Progressing and submitted in a status write.                             *)
C27_AdvancedBeforeAttempt ==
    \A c \in Calls : (c.kind = "wli" /\ c.callbacks # <<>>) => AdvancedBeforeAttempt(c)

(* The call ran the completion step and its writes were stored *)
AfterCompletion(c) ==
    /\ c.loaded /\ c.after.CurrentPhase = PhaseCompleted
    /\ \A i \in 1..Len(c.writes) : c.writes[i].ok

(* C28 -- Eventual completion: under the fair scheduler the workload        *)
(* instance and the application version each reach, and keep, a persisted   *)
(* overall Status Succeeded with the EndTime set, and the Reconcile call    *)
(* that completes an entity returns no requeue.                             *)
C28_EventualCompletion ==
    /\ <>[](Completed(storeWli) /\ Completed(storeApp))
    /\ []((last # NoCall /\ AfterCompletion(last)) => last.result = NoResult)

(* The part of C28 about the workload instance alone *)
WliEventualCompletion == <>[]Completed(storeWli)

(* The part of C28 about the return of the completing call *)
NoRequeueAfterCompletion ==
    (last # NoCall /\ AfterCompletion(last)) => last.result = NoResult

====
